---- MODULE Spec2Model ----
\* Task manager (os/src/task/manager.rs) and processor (os/src/task/processor.rs)
\* of the kernel: the Ready List with its stride selection, the dispatch loop,
\* the yield path and the operations that act on the current task.
EXTENDS Integers, Sequences, FiniteSets, TLC

\* ---------------------------------------------------------------- bounds
\* Number of task control blocks that exist.
NTasks == 3
\* Width of usize in bits (the kernel's is 64).
StrideBits == 3
\* Largest pass a task is given.
MaxPass == 2
\* Calls of TaskManager::add and of TaskManager::fetch in a run of the
\* manager on its own.
MaxAdds == 3
MaxFetches == 3
\* log2 of the page size (the kernel's is 12).
PageBits == 1
\* Largest start address and largest length passed to mmap and munmap.
MaxAddr == 3
MaxLen == 2
\* Length of the syscall_times table and the cap of one counter.
NumSyscalls == 2
MaxCount == 1
MaxCalls == 2
\* Largest reading of the millisecond clock.
MaxTime == 2

Tasks == 1..NTasks
\* usize::MAX, manager.rs line 28
UsizeMax == 2^StrideBits - 1
Strides == 0..UsizeMax
\* Option::None of a task handle
None == 0
PageSize == 2^PageBits
\* Raw permission encodings passed to mmap: none, R, W|X, U, U|R
Ports == {0, 1, 6, 8, 9}

VARIABLES
    ready_list,     \* TaskManager.ready_list: sequence of task handles
    stride,         \* TaskControlBlockInner.stride of every task
    pass,           \* the pass added to the stride of a task per dispatch
    status,         \* TaskControlBlockInner.task_status of every task
    syscall_times,  \* TaskControlBlockInner.syscall_times of every task
    start_time,     \* TaskControlBlockInner.start_time of every task
    aspace,         \* the framed areas of every task's address space
    current,        \* Processor.current: None or a task handle
    flow,           \* the context the CPU runs: None is the idle flow (run_tasks)
    idle_pc,        \* position of the idle flow: "boot" or "loop" (in run_tasks)
    fault,          \* TRUE once the kernel panicked
    held,           \* the UPSafeCell guards that are borrowed
    taken,          \* handles callers obtained through take_current_task
    created,        \* tasks that were handed to add_task as new tasks
    fetched,        \* the value the last fetch returned
    added,          \* history: tasks in the order TaskManager::add got them
    got,            \* history: the values TaskManager::fetch returned, in order
    counted,        \* history: the calls of count_numbers_of_syscall that
                    \* returned, per task that was current and syscall id
    op,             \* the last operation: <<name, address or syscall id or
                    \* clock reading, port>>
    ret,            \* the value the last operation returned (isize or handle)
    info            \* the TaskInfo the last operation returned, if any

vars == <<ready_list, stride, pass, status, syscall_times, start_time, aspace,
          current, flow, idle_pc, fault, held, taken, created, fetched,
          added, got, counted, op, ret, info>>

\* The fields of the task control blocks
tcbVars == <<stride, pass, status, syscall_times, start_time, aspace>>
\* The histories of the manager's calls
histVars == <<added, got, counted>>

\* ---------------------------------------------------------------- helpers
Range(s) == {s[i] : i \in 1..Len(s)}

\* A removal that moves the last element into the place of the removed one
RemoveAtSwap(list, at) ==
    [j \in 1..(Len(list) - 1) |-> IF j = at + 1 THEN list[Len(list)] ELSE list[j]]

\* LinkedList::remove(at): the list without the element at 0-based index at
RemoveAt(list, at) ==
    [j \in 1..(Len(list) - 1) |-> IF j <= at THEN list[j] ELSE list[j + 1]]

\* ---------------------------------------------------------------- TaskManager
\* TaskManager::add: push_back
ListAdd(list, task) == Append(list, task)

\* The for loop of TaskManager::fetch: i counts the elements seen, min_stride
\* starts at usize::MAX and min_i at -1; returns <<min_stride, min_i>>.
RECURSIVE FetchScan(_, _, _, _, _)
FetchScan(list, st, i, min_stride, min_i) ==
    IF i >= Len(list) THEN <<min_stride, min_i>>
    ELSE IF st[list[i + 1]] < min_stride
         THEN FetchScan(list, st, i + 1, st[list[i + 1]], i)
         ELSE FetchScan(list, st, i + 1, min_stride, min_i)

\* A scan that takes the head of the list whatever the strides are
FetchMinIHead(list, st) == IF list = <<>> THEN -1 ELSE 0

\* min_i after the scan of TaskManager::fetch
FetchMinI(list, st) == FetchScan(list, st, 0, UsizeMax, -1)[2]

\* The value TaskManager::fetch returns: None when min_i = -1
FetchResult(list, st) ==
    IF FetchMinI(list, st) = -1 THEN None ELSE list[FetchMinI(list, st) + 1]

\* A fetch that returns the task and leaves it linked
FetchRestKeep(list, st) == list

\* The Ready List TaskManager::fetch leaves
FetchRest(list, st) ==
    IF FetchMinI(list, st) = -1 THEN list ELSE RemoveAt(list, FetchMinI(list, st))

\* ---------------------------------------------------------------- guards
\* The RefCell borrow flags of the three kinds of UPSafeCell
ProcessorGuard == <<"PROCESSOR", 0>>
ManagerGuard == <<"TASK_MANAGER", 0>>
InnerGuard(t) == <<"inner", t>>

\* UPSafeCell::exclusive_access panics when the cell is already borrowed
Borrowed(h, g) == g \in h
Acquire(h, g) == h \cup {g}
Release(h, g) == h \ {g}

\* fetch_task: borrows TASK_MANAGER for the call; fetch borrows the inner
\* state of every listed task for the comparison. TRUE when a borrow panics.
FetchTaskPanics(h, list) ==
    \/ Borrowed(h, ManagerGuard)
    \/ \E i \in 1..Len(list) : Borrowed(h, InnerGuard(list[i]))

\* run_tasks without the drop of processor before __switch
GuardsAtSwitchRunKeep(h, t) ==
    Release(Acquire(Acquire(h, ProcessorGuard), InnerGuard(t)), InnerGuard(t))

\* The guards borrowed when run_tasks calls __switch for the fetched task t:
\* processor borrowed (125), task_inner borrowed (129) and dropped (133),
\* processor dropped (137).
GuardsAtSwitchRun(h, t) ==
    Release(Release(Acquire(Acquire(h, ProcessorGuard), InnerGuard(t)),
                    InnerGuard(t)), ProcessorGuard)

\* An else branch that keeps the processor borrowed into the next iteration
GuardsAtLoopEndKeep(h) == Acquire(h, ProcessorGuard)

\* The guards borrowed when an iteration of run_tasks that fetched nothing
\* ends: processor borrowed (125) and dropped at the end of the loop body (144).
GuardsAtLoopEnd(h) == Release(Acquire(h, ProcessorGuard), ProcessorGuard)

\* The guards borrowed when schedule calls __switch: processor borrowed (173)
\* and dropped (175).
GuardsAtSwitchSched(h) == Release(Acquire(h, ProcessorGuard), ProcessorGuard)

\* ---------------------------------------------------------------- Processor
NoInfo == [status |-> "none", syscall_times |-> <<>>, time |-> 0]

\* A take_current that clones and leaves the slot as it is
TakeCurrentSlotKeep(cur) == cur

\* Processor::take_current: Option::take, the slot afterwards
TakeCurrentSlot(cur) == None

\* A current that returns nothing whatever the slot holds
CurrentCloneNone(cur) == None

\* Processor::current: the clone returned
CurrentClone(cur) == cur

\* A panic (a cell borrowed twice, unwrap of None, an index out of bounds)
\* stops the kernel inside the operation o.
Panic(o) ==
    /\ fault' = TRUE
    /\ op' = o
    /\ UNCHANGED <<tcbVars, histVars, ready_list, current, flow, idle_pc, held,
                   taken, created, fetched, ret, info>>

\* add_task(task): the caller passes a new task, or a handle it obtained
\* through take_current_task; the boot flow and a running task may call it.
AddTask(t) ==
    /\ ~fault
    /\ flow = None => idle_pc = "boot"
    /\ t \in (Tasks \ created) \cup taken
    /\ IF Borrowed(held, ManagerGuard) THEN Panic(<<"add_task", 0, 0>>)
       ELSE /\ ready_list' = ListAdd(ready_list, t)
            /\ created' = created \cup {t}
            /\ taken' = taken \ {t}
            /\ op' = <<"add_task", 0, 0>>
            /\ UNCHANGED <<tcbVars, histVars, current, flow, idle_pc, fault,
                           held, fetched, ret, info>>

\* The kernel's entry calls run_tasks once.
EnterRunTasks ==
    /\ ~fault
    /\ flow = None /\ idle_pc = "boot"
    /\ idle_pc' = "loop"
    /\ op' = <<"run_tasks", 0, 0>>
    /\ UNCHANGED <<tcbVars, histVars, ready_list, current, flow, fault, held,
                   taken, created, fetched, ret, info>>

\* One iteration of the loop of run_tasks up to __switch (a task was fetched)
\* or up to the end of the else branch (none was). next_task_cx_ptr points to
\* the task_cx of the fetched task, so __switch continues that task's flow.
RunTasks ==
    /\ ~fault
    /\ flow = None /\ idle_pc = "loop"
    /\ IF Borrowed(held, ProcessorGuard) \/ FetchTaskPanics(held, ready_list)
       THEN Panic(<<"run_tasks", 0, 0>>)
       ELSE LET task == FetchResult(ready_list, stride) IN
            /\ fetched' = task
            /\ ready_list' = FetchRest(ready_list, stride)
            /\ IF task # None
               THEN /\ status' = [status EXCEPT ![task] = "Running"]
                    /\ current' = task
                    /\ held' = GuardsAtSwitchRun(held, task)
                    /\ flow' = task
               ELSE /\ UNCHANGED <<status, current, flow>>
                    /\ held' = GuardsAtLoopEnd(held)
            /\ op' = <<"run_tasks", 0, 0>>
            /\ UNCHANGED <<stride, pass, syscall_times, start_time, aspace,
                           histVars, idle_pc, fault, taken, created, ret, info>>

\* take_current_task, called by the running flow
TakeCurrentTask ==
    /\ ~fault
    /\ flow # None
    /\ IF Borrowed(held, ProcessorGuard) THEN Panic(<<"take_current_task", 0, 0>>)
       ELSE /\ ret' = current
            /\ info' = NoInfo
            /\ taken' = taken \cup ({current} \ {None})
            /\ current' = TakeCurrentSlot(current)
            /\ op' = <<"take_current_task", 0, 0>>
            /\ UNCHANGED <<tcbVars, histVars, ready_list, flow, idle_pc, fault,
                           held, created, fetched>>

\* current_task, called by the running flow
CurrentTask ==
    /\ ~fault
    /\ flow # None
    /\ IF Borrowed(held, ProcessorGuard) THEN Panic(<<"current_task", 0, 0>>)
       ELSE /\ ret' = CurrentClone(current)
            /\ info' = NoInfo
            /\ op' = <<"current_task", 0, 0>>
            /\ UNCHANGED <<tcbVars, histVars, ready_list, current, flow, idle_pc,
                           fault, held, taken, created, fetched>>

\* A schedule whose __switch restores the context it has just saved
ScheduleSwitchToSelf(f) == f

\* schedule: __switch(switched_task_cx_ptr, idle_task_cx_ptr) restores the
\* context of the idle flow (174-178)
ScheduleSwitchTo(f) == None

\* schedule(switched_task_cx_ptr), called by the running flow: __switch saves
\* the caller's context and restores idle_task_cx, so run_tasks goes on after
\* its own __switch call, at the end of the loop body.
Schedule ==
    /\ ~fault
    /\ flow # None
    /\ IF Borrowed(held, ProcessorGuard) THEN Panic(<<"schedule", 0, 0>>)
       ELSE /\ held' = GuardsAtSwitchSched(held)
            /\ flow' = ScheduleSwitchTo(flow)
            /\ op' = <<"schedule", 0, 0>>
            /\ UNCHANGED <<tcbVars, histVars, ready_list, current, idle_pc, fault,
                           taken, created, fetched, ret, info>>

\* ---------------------------------------------------------------- address space
\* VirtAddr::page_offset
PageOffset(a) == a % PageSize

\* VirtAddr::floor and VirtAddr::ceil: the page numbers
VpnFloor(a) == a \div PageSize
VpnCeil(a) == (a + PageSize - 1) \div PageSize

\* The pages of the framed area [start, end)
AreaPages(start, end) == VpnFloor(start)..(VpnCeil(end) - 1)

\* MapPermission::from(port): bit 0 is R, bit 1 is W, bit 2 is X, bit 3 is U
PermFromPort(p) ==
    {b \in {"R", "W", "X", "U"} :
        \/ b = "R" /\ p % 2 = 1
        \/ b = "W" /\ (p \div 2) % 2 = 1
        \/ b = "X" /\ (p \div 4) % 2 = 1
        \/ b = "U" /\ (p \div 8) % 2 = 1}

\* _start + _len in usize
EndAddr(a, l) == (a + l) % (UsizeMax + 1)

\* insert_framed_area returns true when no tracked area shares a page with
\* [start, end), and then tracks the area; nothing changes otherwise.
InsertFramedAreaOk(areas, start, end) ==
    \A ar \in areas : AreaPages(ar.start, ar.end) \cap AreaPages(start, end) = {}

InsertFramedArea(areas, start, end, perm) ==
    areas \cup {[start |-> start, end |-> end, perm |-> perm]}

\* free_framed_area returns true when exactly [start, end) is tracked, and
\* then removes the area; nothing changes otherwise.
FreeFramedAreaOk(areas, start, end) ==
    \E ar \in areas : ar.start = start /\ ar.end = end

FreeFramedArea(areas, start, end) ==
    {ar \in areas : ~(ar.start = start /\ ar.end = end)}

\* TaskControlBlock::get_user_token: the token of the task's page table
UserToken(t) == t

\* ---------------------------------------------------------------- operations on the current task
\* A check of the start address that lets every address through
StartMisalignedNever(a) == FALSE

\* mmap and munmap: start.page_offset() != 0 returns -1 (72-74, 103-105)
StartMisaligned(a) == PageOffset(a) # 0

\* A check of the permissions that lets every port through
PermRejectedNever(p) == FALSE

\* A check of the permissions that forgets the test of the U bit
PermRejectedNoUserTest(p) == PermFromPort(p) \cap {"X", "W", "R"} = {}

\* mmap: a decoded permission set with U, or without any of R, W, X,
\* returns -1 (76-83)
PermRejected(p) ==
    \/ "U" \in PermFromPort(p)
    \/ PermFromPort(p) \cap {"X", "W", "R"} = {}

\* A count that writes the counter of the first syscall whatever the id
CountUpFirst(times, id) == [times EXCEPT ![0] = times[0] + 1]

\* count_numbers_of_syscall: syscall_times[syscall_id] += 1 (54)
CountUp(times, id) == [times EXCEPT ![id] = times[id] + 1]

\* count_numbers_of_syscall(syscall_id), called while the counter is below cap
CountNumbersOfSyscallUpTo(id, cap) ==
    /\ ~fault
    /\ flow # None
    /\ (current # None /\ id < NumSyscalls) => syscall_times[current][id] < cap
    /\ IF \/ Borrowed(held, ProcessorGuard)
          \/ current = None
          \/ Borrowed(held, InnerGuard(current))
          \/ id >= NumSyscalls
       THEN Panic(<<"count_numbers_of_syscall", id, 0>>)
       ELSE /\ syscall_times' =
                  [syscall_times EXCEPT ![current] = CountUp(syscall_times[current], id)]
            /\ counted' = [counted EXCEPT ![current][id] = counted[current][id] + 1]
            /\ op' = <<"count_numbers_of_syscall", id, 0>>
            /\ ret' = 0
            /\ info' = NoInfo
            /\ UNCHANGED <<stride, pass, status, start_time, aspace, added, got,
                           ready_list, current, flow, idle_pc, fault, held, taken,
                           created, fetched>>

\* count_numbers_of_syscall(syscall_id)
CountNumbersOfSyscall(id) == CountNumbersOfSyscallUpTo(id, MaxCount)

\* A TaskInfo built without the table of syscall counters
TaskInfoNoTimes(st, times, started, now) ==
    [status |-> st, syscall_times |-> [id \in DOMAIN times |-> 0],
     time |-> now - started]

\* get_current_task: the TaskInfo of the task's status, a clone of its
\* syscall_times and the time since its start_time (62-66)
TaskInfoOf(st, times, started, now) ==
    [status |-> st, syscall_times |-> times, time |-> now - started]

\* get_current_task; now is the reading of timer::get_time_ms
GetCurrentTask ==
    /\ ~fault
    /\ flow # None
    /\ IF \/ Borrowed(held, ProcessorGuard)
          \/ current = None
          \/ Borrowed(held, InnerGuard(current))
       THEN Panic(<<"get_current_task", 0, 0>>)
       ELSE /\ \E now \in start_time[current]..MaxTime :
                  /\ info' = TaskInfoOf(status[current], syscall_times[current],
                                        start_time[current], now)
                  /\ op' = <<"get_current_task", now, 0>>
            /\ ret' = 0
            /\ UNCHANGED <<tcbVars, histVars, ready_list, current, flow, idle_pc,
                           fault, held, taken, created, fetched>>

\* mmap(_start, _len, _port)
Mmap(a, l, p) ==
    /\ ~fault
    /\ flow # None
    /\ IF Borrowed(held, ProcessorGuard) THEN Panic(<<"mmap", a, p>>)
       ELSE IF StartMisaligned(a) \/ PermRejected(p)
       THEN /\ ret' = -1
            /\ info' = NoInfo
            /\ op' = <<"mmap", a, p>>
            /\ UNCHANGED <<tcbVars, histVars, ready_list, current, flow, idle_pc,
                           fault, held, taken, created, fetched>>
       ELSE IF current = None \/ Borrowed(held, InnerGuard(current))
       THEN Panic(<<"mmap", a, p>>)
       ELSE LET perm == PermFromPort(p) \cup {"U"}
                end == EndAddr(a, l)
                ok == InsertFramedAreaOk(aspace[current], a, end)
            IN
            /\ aspace' = IF ok
                         THEN [aspace EXCEPT ![current] =
                                 InsertFramedArea(aspace[current], a, end, perm)]
                         ELSE aspace
            /\ ret' = IF ok THEN 0 ELSE -1
            /\ info' = NoInfo
            /\ op' = <<"mmap", a, p>>
            /\ UNCHANGED <<stride, pass, status, syscall_times, start_time,
                           histVars, ready_list, current, flow, idle_pc, fault,
                           held, taken, created, fetched>>

\* A result of munmap that ignores what free_framed_area answered
MunmapResultOk(freed) == 0

\* munmap: -1 when free_framed_area answers false, 0 otherwise (109-113)
MunmapResult(freed) == IF freed THEN 0 ELSE -1

\* munmap(_start, _len)
Munmap(a, l) ==
    /\ ~fault
    /\ flow # None
    /\ IF Borrowed(held, ProcessorGuard) THEN Panic(<<"munmap", a, 0>>)
       ELSE IF StartMisaligned(a)
       THEN /\ ret' = -1
            /\ info' = NoInfo
            /\ op' = <<"munmap", a, 0>>
            /\ UNCHANGED <<tcbVars, histVars, ready_list, current, flow, idle_pc,
                           fault, held, taken, created, fetched>>
       ELSE IF current = None \/ Borrowed(held, InnerGuard(current))
       THEN Panic(<<"munmap", a, 0>>)
       ELSE LET end == EndAddr(a, l)
                ok == FreeFramedAreaOk(aspace[current], a, end)
            IN
            /\ aspace' = IF ok
                         THEN [aspace EXCEPT ![current] =
                                 FreeFramedArea(aspace[current], a, end)]
                         ELSE aspace
            /\ ret' = MunmapResult(ok)
            /\ info' = NoInfo
            /\ op' = <<"munmap", a, 0>>
            /\ UNCHANGED <<stride, pass, status, syscall_times, start_time,
                           histVars, ready_list, current, flow, idle_pc, fault,
                           held, taken, created, fetched>>

\* current_user_token
CurrentUserToken ==
    /\ ~fault
    /\ flow # None
    /\ IF \/ Borrowed(held, ProcessorGuard)
          \/ current = None
          \/ Borrowed(held, InnerGuard(current))
       THEN Panic(<<"current_user_token", 0, 0>>)
       ELSE /\ ret' = UserToken(current)
            /\ info' = NoInfo
            /\ op' = <<"current_user_token", 0, 0>>
            /\ UNCHANGED <<tcbVars, histVars, ready_list, current, flow, idle_pc,
                           fault, held, taken, created, fetched>>

\* current_trap_cx: the reference to the trap context of the current task
CurrentTrapCx ==
    /\ ~fault
    /\ flow # None
    /\ IF \/ Borrowed(held, ProcessorGuard)
          \/ current = None
          \/ Borrowed(held, InnerGuard(current))
       THEN Panic(<<"current_trap_cx", 0, 0>>)
       ELSE /\ ret' = current
            /\ info' = NoInfo
            /\ op' = <<"current_trap_cx", 0, 0>>
            /\ UNCHANGED <<tcbVars, histVars, ready_list, current, flow, idle_pc,
                           fault, held, taken, created, fetched>>

\* suspend_current_and_run_next, the time-slice yield of the running task:
\* take the current task, add its pass to its stride, mark it Ready, enqueue
\* it again and call schedule. An overflow of the stride panics.
SuspendCurrentAndRunNext ==
    /\ ~fault
    /\ flow # None /\ current # None
    /\ IF \/ Borrowed(held, ProcessorGuard)
          \/ Borrowed(held, ManagerGuard)
          \/ Borrowed(held, InnerGuard(current))
          \/ stride[current] + pass[current] > UsizeMax
       THEN Panic(<<"suspend_current_and_run_next", 0, 0>>)
       ELSE /\ stride' = [stride EXCEPT ![current] = stride[current] + pass[current]]
            /\ status' = [status EXCEPT ![current] = "Ready"]
            /\ ready_list' = ListAdd(ready_list, current)
            /\ current' = TakeCurrentSlot(current)
            /\ held' = GuardsAtSwitchSched(held)
            /\ flow' = None
            /\ op' = <<"suspend_current_and_run_next", 0, 0>>
            /\ UNCHANGED <<pass, syscall_times, start_time, aspace, histVars,
                           idle_pc, fault, taken, created, fetched, ret, info>>

\* ---------------------------------------------------------------- initial states
\* The task control blocks as TaskControlBlock::new leaves them
InitTcbs ==
    /\ status = [t \in Tasks |-> "Ready"]
    /\ syscall_times = [t \in Tasks |-> [id \in 0..(NumSyscalls - 1) |-> 0]]
    /\ start_time = [t \in Tasks |-> 1]
    /\ aspace = [t \in Tasks |-> {}]

\* Processor::new, and nothing was called yet
InitProcessor ==
    /\ current = None
    /\ flow = None
    /\ fault = FALSE
    /\ held = {}
    /\ taken = {}
    /\ fetched = None
    /\ added = <<>>
    /\ got = <<>>
    /\ counted = [t \in Tasks |-> [id \in 0..(NumSyscalls - 1) |-> 0]]
    /\ op = <<"none", 0, 0>>
    /\ ret = 0
    /\ info = NoInfo

\* TaskManager::new, before the kernel's entry added a task
InitBoot ==
    /\ InitTcbs
    /\ InitProcessor
    /\ ready_list = <<>>
    /\ created = {}
    /\ idle_pc = "boot"

\* The kernel's entry added every task and called run_tasks
InitBooted ==
    /\ InitTcbs
    /\ InitProcessor
    /\ ready_list = [i \in 1..NTasks |-> i]
    /\ created = Tasks
    /\ idle_pc = "loop"

\* ---------------------------------------------------------------- the manager on its own
\* TaskManager::add called on a manager, with a task that is not in the list
MgrAdd(t) ==
    /\ Len(added) < MaxAdds
    /\ t \notin Range(ready_list)
    /\ ready_list' = ListAdd(ready_list, t)
    /\ added' = Append(added, t)
    /\ UNCHANGED <<tcbVars, current, flow, idle_pc, fault, held, taken, created,
                   fetched, got, counted, op, ret, info>>

\* TaskManager::fetch called on a manager
MgrFetch ==
    /\ Len(got) < MaxFetches
    /\ fetched' = FetchResult(ready_list, stride)
    /\ ready_list' = FetchRest(ready_list, stride)
    /\ got' = Append(got, FetchResult(ready_list, stride))
    /\ UNCHANGED <<tcbVars, current, flow, idle_pc, fault, held, taken, created,
                   added, counted, op, ret, info>>

\* Every task has some stride of the usize range.
InitMgr ==
    /\ InitBoot
    /\ stride \in [Tasks -> Strides]
    /\ pass = [t \in Tasks |-> 1]

NextMgr == (\E t \in Tasks : MgrAdd(t)) \/ MgrFetch

SpecMgr == InitMgr /\ [][NextMgr]_vars

\* The round trip: distinct tasks are added to the empty manager, then
\* fetched, never more fetches than adds.
RTAdd(t) == got = <<>> /\ t \notin Range(added) /\ MgrAdd(t)

RTFetch == Len(got) < Len(added) /\ MgrFetch

NextRoundTrip == (\E t \in Tasks : RTAdd(t)) \/ RTFetch

SpecRoundTrip == InitMgr /\ [][NextRoundTrip]_vars

\* ---------------------------------------------------------------- the scheduler
\* Strides the tasks have when the kernel boots: small ones and usize::MAX
BootStrides == {0, 1, UsizeMax}

Init ==
    /\ InitBoot
    /\ stride \in [Tasks -> BootStrides]
    /\ pass = [t \in Tasks |-> 1]

Next ==
    \/ \E t \in Tasks : AddTask(t)
    \/ EnterRunTasks
    \/ RunTasks
    \/ TakeCurrentTask
    \/ CurrentTask
    \/ Schedule

Spec == Init /\ [][Next]_vars

\* ---------------------------------------------------------------- time-slice scheduling
\* Every task is ready with the same stride and has a pass of its own; each
\* dispatched task yields through suspend_current_and_run_next.
InitFair ==
    /\ InitBooted
    /\ \E s \in Strides : stride = [t \in Tasks |-> s]
    /\ pass \in [Tasks -> 1..MaxPass]

NextFair == RunTasks \/ SuspendCurrentAndRunNext

SpecFair == InitFair /\ [][NextFair]_vars

\* ---------------------------------------------------------------- the current task's operations
\* The first task the dispatch loop runs calls the operations on the current
\* task, before and after it took itself out of the current slot and after it
\* enqueued itself again.
InitOps ==
    /\ InitBooted
    /\ stride = [t \in Tasks |-> 0]
    /\ pass = [t \in Tasks |-> 1]

Lens == 1..MaxLen

NextOps ==
    \/ RunTasks
    \/ TakeCurrentTask
    \/ \E t \in Tasks : AddTask(t)
    \/ \E id \in 0..NumSyscalls : CountNumbersOfSyscall(id)
    \/ GetCurrentTask
    \/ \E a \in 0..MaxAddr, l \in Lens, p \in Ports : Mmap(a, l, p)
    \/ \E a \in 0..MaxAddr, l \in Lens : Munmap(a, l)
    \/ CurrentUserToken
    \/ CurrentTrapCx

SpecOps == InitOps /\ [][NextOps]_vars

\* ---------------------------------------------------------------- claims
\* Position (1-based) of the earliest task of the list that has the least stride
EarliestMin(list, st) ==
    CHOOSE i \in 1..Len(list) :
        /\ \A j \in 1..Len(list) : st[list[i]] <= st[list[j]]
        /\ \A j \in 1..(i - 1) : st[list[j]] > st[list[i]]

\* C1: for every non-empty Ready List and every assignment of strides, the
\* largest usize included, fetch returns a task whose stride is at most the
\* stride of every task that was in the list.
C1_FetchReturnsMinimum ==
    [][(MgrFetch /\ ready_list # <<>>) =>
         /\ fetched' # None
         /\ \A i \in 1..Len(ready_list) :
               stride[fetched'] <= stride[ready_list[i]]]_vars

\* C2: fetch returns nothing exactly when the Ready List is empty; from a
\* non-empty list it removes one task and returns it, and the list gets
\* shorter by one.
C2_FetchNoneIffEmpty ==
    [][MgrFetch =>
         /\ (fetched' = None) <=> (ready_list = <<>>)
         /\ ready_list # <<>> =>
               /\ fetched' \in Range(ready_list)
               /\ Len(ready_list') = Len(ready_list) - 1]_vars

\* C3: among the tasks that share the least stride fetch returns the one
\* added earliest, at every fetch.
C3_FifoAmongTies ==
    [][(MgrFetch /\ ready_list # <<>>) =>
         fetched' = ready_list[EarliestMin(ready_list, stride)]]_vars

\* The largest pass among the tasks
LargestPass == CHOOSE p \in {pass[t] : t \in Tasks} : \A t \in Tasks : pass[t] <= p

C5_RoundTrip ==
    /\ \A i \in 1..Len(got) :
          got[i] \in Range(added) /\ got[i] \notin Range(ready_list)
    /\ \A i, j \in 1..Len(got) : i # j => got[i] # got[j]
    /\ (added # <<>> /\ Len(got) = Len(added)) => ready_list = <<>>

\* C6: no task handle is in the Ready List and in the current slot of the
\* Processor at the same time.
C6_NoDoubleOwnership ==
    current # None => current \notin Range(ready_list)

\* A task that ran and was enqueued again waits while another task is current.
C6_Witness ==
    /\ current # None
    /\ \E i \in 1..Len(ready_list) : status[ready_list[i]] = "Running"

\* C7: whenever __switch transfers control, from run_tasks or from schedule,
\* no guard is borrowed: not PROCESSOR, not TASK_MANAGER, not the inner state
\* of any task.
C7_NoGuardAtSwitch ==
    [][flow' # flow =>
         /\ ~Borrowed(held', ProcessorGuard)
         /\ ~Borrowed(held', ManagerGuard)
         /\ \A t \in Tasks : ~Borrowed(held', InnerGuard(t))]_vars

\* schedule gave control back to run_tasks after a dispatch, and nothing
\* panicked on a borrowed cell.
C7_Witness ==
    flow = None /\ fetched # None /\ current # None /\ ~fault

\* C8: when run_tasks transfers control into a task, that task is the one
\* fetch_task returned in this iteration, it was in the Ready List and is not
\* any more, its status is Running and it is the current task.
C8_DispatchFetched ==
    [][(flow = None /\ flow' # None) =>
         /\ flow' = fetched'
         /\ flow' \in Range(ready_list)
         /\ flow' \notin Range(ready_list')
         /\ status'[flow'] = "Running"
         /\ current' = flow']_vars

\* A task that was Ready was dispatched while another task stays listed.
C8_Witness ==
    /\ flow # None /\ current = flow /\ fetched = flow
    /\ status[flow] = "Running"
    /\ ready_list # <<>>

\* C9 as stated: every operation on the current task that is invoked while
\* the current slot is empty ends in a fatal fault, for every argument.
C9_AlwaysFault ==
    (current = None /\ op[1] \in {"count_numbers_of_syscall", "get_current_task",
                                  "mmap", "munmap", "current_user_token",
                                  "current_trap_cx"})
        => fault

\* C9 amended: with the current slot empty, count_numbers_of_syscall,
\* get_current_task, current_user_token and current_trap_cx end in a fatal
\* fault; mmap does when its address is page-aligned and its permissions pass
\* the validation, munmap when its address is page-aligned; with arguments
\* that fail the validation mmap and munmap return -1, without a fault and
\* without a change of any address space.
C9_FaultUnlessRejected ==
    [][current = None =>
         /\ op'[1] \in {"count_numbers_of_syscall", "get_current_task",
                        "current_user_token", "current_trap_cx"} => fault'
         /\ op'[1] = "mmap" =>
               IF \/ op'[2] % PageSize # 0
                  \/ "U" \in PermFromPort(op'[3])
                  \/ PermFromPort(op'[3]) \cap {"R", "W", "X"} = {}
               THEN ~fault' /\ ret' = -1 /\ aspace' = aspace
               ELSE fault'
         /\ op'[1] = "munmap" =>
               IF op'[2] % PageSize # 0
               THEN ~fault' /\ ret' = -1 /\ aspace' = aspace
               ELSE fault']_vars

\* mmap panicked on the empty current slot after the task took itself out.
C9_Witness ==
    fault /\ current = None /\ op[1] = "mmap" /\ taken # {}

\* C10: mmap and munmap with an address that is not page-aligned return -1
\* and leave every address space, the Ready List and the current slot as
\* they were.
C10_MisalignedRejected ==
    [][(op'[1] \in {"mmap", "munmap"} /\ op'[2] % PageSize # 0) =>
         /\ ret' = -1 /\ ~fault'
         /\ UNCHANGED <<aspace, ready_list, current>>]_vars

\* A munmap of a misaligned address was rejected while the current task has
\* a mapping and another task is ready.
C10_Witness ==
    /\ op[1] = "munmap" /\ op[2] % PageSize # 0
    /\ ret = -1
    /\ current # None /\ aspace[current] # {}
    /\ ready_list # <<>>

\* ---------------------------------------------------------------- the address space of the current task
\* The start of the last page of the address range: a region of two or more
\* bytes that starts there ends past usize::MAX.
LastPage == UsizeMax + 1 - PageSize

MemAddrs == (0..MaxAddr) \cup {LastPage}

\* The first task the dispatch loop runs maps and unmaps regions, before and
\* after it took itself out of the current slot.
NextMem ==
    \/ RunTasks
    \/ TakeCurrentTask
    \/ \E t \in Tasks : AddTask(t)
    \/ \E a \in MemAddrs, l \in Lens, p \in Ports : Mmap(a, l, p)
    \/ \E a \in MemAddrs, l \in Lens : Munmap(a, l)

SpecMem == InitOps /\ [][NextMem]_vars

\* C11: mmap with a page-aligned start returns -1, without a fault and with
\* every address space as it was, whenever the permission set decoded from the
\* port has the U bit and whenever it has none of R, W, X; a step of mmap that
\* changes an address space has a decoded set without U and with one of R, W, X.
C11_PermissionsValidated ==
    [][(op'[1] = "mmap" /\ op'[2] % PageSize = 0) =>
         LET decoded == PermFromPort(op'[3]) IN
         /\ ("U" \in decoded \/ decoded \cap {"R", "W", "X"} = {}) =>
                (ret' = -1 /\ ~fault' /\ aspace' = aspace)
         /\ aspace' # aspace =>
                ("U" \notin decoded /\ decoded \cap {"R", "W", "X"} # {})]_vars

\* mmap of a page-aligned start with a port that decodes to R and U was
\* rejected while a task was current
C11_Witness ==
    /\ op[1] = "mmap"
    /\ op[2] % PageSize = 0
    /\ {"R", "U"} \subseteq PermFromPort(op[3])
    /\ current # None
    /\ ret = -1
    /\ ~fault

\* C12: a call of mmap by the current task returns 0 exactly when the start is
\* page-aligned, the permission set decoded from the port has no U and one of
\* R, W, X, and no tracked area shares a page with [addr, addr+length), and it
\* returns -1 otherwise; when it returns 0 the address space of the current
\* task gains exactly the area [addr, addr+length) with the decoded R, W, X
\* bits and U, and when it returns -1 no address space changes.
C12_MmapExact ==
    [][(op'[1] = "mmap" /\ current # None) =>
         \A l \in Lens : Mmap(op'[2], l, op'[3]) =>
             LET addr == op'[2]
                 decoded == PermFromPort(op'[3])
                 valid == /\ addr % PageSize = 0
                          /\ "U" \notin decoded
                          /\ decoded \cap {"R", "W", "X"} # {}
                 accepted == InsertFramedAreaOk(aspace[current], addr, addr + l)
                 area == [start |-> addr, end |-> addr + l,
                          perm |-> (decoded \cap {"R", "W", "X"}) \cup {"U"}]
             IN
             /\ ~fault'
             /\ ret' = IF valid /\ accepted THEN 0 ELSE -1
             /\ ret' = 0 =>
                    aspace' = [aspace EXCEPT ![current] = aspace[current] \cup {area}]
             /\ ret' = -1 => aspace' = aspace]_vars

\* C13: a call of munmap(addr, length) by the current task returns -1 and
\* changes no address space when the task's address space tracks no area with
\* exactly the bounds of [addr, addr+length), be the region unmapped or a part
\* of a mapped one; when such an area is tracked, munmap returns 0 and removes
\* exactly it, so that the same call made again finds no area and returns -1.
C13_MunmapExact ==
    [][(op'[1] = "munmap" /\ current # None) =>
         \A l \in Lens : Munmap(op'[2], l) =>
             LET addr == op'[2]
                 end == (addr + l) % (UsizeMax + 1)
                 region == {ar \in aspace[current] :
                               ar.start = addr /\ ar.end = end}
             IN
             /\ ~fault'
             /\ region = {} => (ret' = -1 /\ aspace' = aspace)
             /\ region # {} =>
                    /\ ret' = 0
                    /\ aspace' = [aspace EXCEPT ![current] = aspace[current] \ region]
                    /\ \A ar \in aspace'[current] :
                           ~(ar.start = addr /\ ar.end = end)]_vars

\* munmap removed one of two mapped regions of the current task
C13_Witness ==
    /\ op[1] = "munmap"
    /\ ret = 0
    /\ ~fault
    /\ current # None
    /\ aspace[current] # {}

\* ---------------------------------------------------------------- the accounting of the current task
\* The first task the dispatch loop runs counts its syscalls and reads its
\* TaskInfo, before and after it took itself out of the current slot.
NextAcct ==
    \/ RunTasks
    \/ TakeCurrentTask
    \/ \E t \in Tasks : AddTask(t)
    \/ \E id \in 0..NumSyscalls : CountNumbersOfSyscallUpTo(id, MaxCalls)
    \/ GetCurrentTask

SpecAcct == InitOps /\ [][NextAcct]_vars

\* C14: the counters start at zero; the counter of every task at every index
\* equals the number of calls of count_numbers_of_syscall made with that index
\* while that task was current, so the calls change no other index and no
\* other task; and the table get_current_task reports for the current task
\* holds, at every index, that number of calls.
C14_CounterAccuracy ==
    /\ \A t \in Tasks : \A id \in 0..(NumSyscalls - 1) :
          syscall_times[t][id] = counted[t][id]
    /\ (op[1] = "get_current_task" /\ ~fault) =>
          \A id \in 0..(NumSyscalls - 1) :
              info.syscall_times[id] = counted[current][id]

\* get_current_task reported a counter of two after two calls with its index,
\* and a counter of zero at another index
C14_Witness ==
    /\ op[1] = "get_current_task"
    /\ ~fault
    /\ \E id, other \in 0..(NumSyscalls - 1) :
          /\ counted[current][id] = 2
          /\ info.syscall_times[id] = 2
          /\ info.syscall_times[other] = 0

\* C16: a call of get_current_task that returns reports the status of the
\* current task, its whole table of syscall counters and the clock reading
\* less its start time, and leaves the status, counters, stride, start time
\* and address space of every task, the current slot and the Ready List as
\* they were.
C16_GetCurrentTaskPureRead ==
    [][(op'[1] = "get_current_task" /\ ~fault') =>
         /\ info'.status = status[current]
         /\ info'.syscall_times = syscall_times[current]
         /\ info'.time = op'[2] - start_time[current]
         /\ info'.time >= 0
         /\ UNCHANGED <<status, syscall_times, stride, start_time, aspace,
                        current, ready_list>>]_vars

\* get_current_task reported a running task with a counted syscall, some time
\* after its start
C16_Witness ==
    /\ op[1] = "get_current_task"
    /\ ~fault
    /\ info.status = "Running"
    /\ info.time > 0
    /\ \E id \in 0..(NumSyscalls - 1) : info.syscall_times[id] > 0

\* C15: take_current_task returns what the current slot held and leaves the
\* slot empty, so that a current_task that follows it returns nothing;
\* current_task returns what the slot holds and changes neither the slot nor
\* any other state of the Processor, the manager or the tasks, so that a
\* second current_task returns the same.
C15_CurrentSlotIsolation ==
    [][/\ (op'[1] = "take_current_task" /\ ~fault') =>
              (ret' = current /\ current' = None)
       /\ (op'[1] = "current_task" /\ ~fault') =>
              /\ ret' = current
              /\ UNCHANGED <<current, held, flow, idle_pc, ready_list, tcbVars>>
       /\ (op[1] = "take_current_task" /\ op'[1] = "current_task" /\ ~fault') =>
              ret' = None
       /\ (op[1] = "current_task" /\ op'[1] = "current_task" /\ ~fault') =>
              ret' = ret]_vars

\* current_task returned nothing after the task took itself out of the slot
C15_Witness ==
    /\ op[1] = "current_task"
    /\ ~fault
    /\ taken # {}
    /\ current = None
    /\ ret = None

\* C17: an iteration of run_tasks in which fetch_task returned nothing does
\* not switch to a task, does not panic, leaves the Ready List and the current
\* slot as they were and ends with no guard borrowed; the idle flow never
\* leaves the loop, and whenever it has control the next iteration can start.
C17_EmptyFetchRetries ==
    /\ [][(flow = None /\ idle_pc = "loop" /\ op'[1] = "run_tasks"
                /\ fetched' = None) =>
            /\ flow' = None
            /\ ~fault'
            /\ ready_list' = ready_list
            /\ current' = current
            /\ held' = {}]_vars
    /\ [][idle_pc = "loop" => idle_pc' = "loop"]_vars
    /\ []((flow = None /\ idle_pc = "loop" /\ ~fault) => ENABLED RunTasks)

\* After the only listed task took itself out of the slot and yielded, an
\* iteration of run_tasks fetched nothing and the loop is ready to go on.
C17_Witness ==
    /\ op[1] = "run_tasks"
    /\ fetched = None
    /\ flow = None /\ idle_pc = "loop"
    /\ taken # {}
    /\ held = {}
    /\ ~fault

\* C18: one flow has control at a time. While a task has control the dispatch
\* loop takes no step: no iteration of run_tasks, no fetch, no change of its
\* position, and the current slot changes only by the task's own
\* take_current_task; control leaves the task only by schedule, which hands it
\* to the idle flow inside the loop of run_tasks; and the idle flow's next step
\* is then an iteration of run_tasks that fetches anew, the only step that
\* hands control to a task.
C18_DispatchYieldAlternate ==
    [][/\ flow \in Tasks \cup {None}
       /\ flow # None =>
              /\ op'[1] # "run_tasks"
              /\ fetched' = fetched
              /\ idle_pc' = idle_pc
              /\ Len(ready_list') >= Len(ready_list)
              /\ (current' # current => op'[1] = "take_current_task")
              /\ (flow' # flow => (op'[1] = "schedule" /\ flow' = None))
       /\ (op'[1] = "schedule" /\ ~fault') =>
              (flow # None /\ flow' = None /\ idle_pc' = "loop")
       /\ (flow = None /\ idle_pc = "loop") =>
              /\ op'[1] = "run_tasks"
              /\ ~fault' => fetched' = FetchResult(ready_list, stride)
       /\ (flow = None /\ flow' # None) => op'[1] = "run_tasks"]_vars

\* run_tasks dispatched a task after an earlier task had yielded
C18_Witness ==
    /\ op[1] = "run_tasks"
    /\ flow # None
    /\ taken # {}
    /\ ~fault

\* ---------------------------------------------------------------- time-slice scheduling, fair
\* The idle flow keeps iterating the loop of run_tasks whenever it has
\* control, and the timer makes every dispatched task yield through
\* suspend_current_and_run_next.
SpecFairLive ==
    /\ InitFair
    /\ [][NextFair]_vars
    /\ WF_vars(RunTasks)
    /\ WF_vars(SuspendCurrentAndRunNext)

\* C19: when every dispatched task yields and its stride grows by its
\* positive pass, every task that is in the Ready List eventually becomes the
\* current task, whatever its stride, unless the kernel has panicked by then.
C19_NoStarvation ==
    \A t \in Tasks :
        (t \in Range(ready_list)) ~> (current = t \/ fault)

\* ---------------------------------------------------------------- the manager's list and the strides
\* add and fetch are called on a manager whose tasks have a stride of zero,
\* of one or of usize::MAX.
SpecMgrFrame == Init /\ [][NextMgr]_vars

\* C20: a call of fetch changes no stride and leaves the Ready List as it was
\* when it returns nothing, and otherwise without exactly one element, the
\* task it returns, the others in the order they had; a call of add changes no
\* stride and leaves the Ready List as it was with the given task after its
\* last element.
C20_FetchAddFrame ==
    [][/\ got' # got =>
              LET r == got'[Len(got')] IN
              /\ stride' = stride
              /\ r = fetched'
              /\ r = None => ready_list' = ready_list
              /\ r # None =>
                     \E i \in 1..Len(ready_list) :
                         /\ ready_list[i] = r
                         /\ ready_list' = SubSeq(ready_list, 1, i - 1) \o
                                          SubSeq(ready_list, i + 1, Len(ready_list))
       /\ added' # added =>
              /\ stride' = stride
              /\ ready_list' = ready_list \o <<added'[Len(added')]>>]_vars

\* fetch took the middle one of three listed tasks and the other two kept
\* their order
C20_Witness ==
    /\ Len(ready_list) = 2
    /\ Len(added) = 3
    /\ Len(got) = 1
    /\ got[1] = added[2]
    /\ ready_list = <<added[1], added[3]>>

============================================================================
